---- MODULE Spec2Model ----
(***************************************************************************)
(* A model of the reproduce-undefined-injects repository: a controller     *)
(* (MyController) whose handler parameter is bound through a parameter     *)
(* decorator (User) to a pipe (GetUserPipe) that injects REQUEST, a        *)
(* logging collector (LoggerService), and the two test modules that        *)
(* configure them (one without a REQUEST provider, one with it and with    *)
(* the pipe overridden).                                                   *)
(*                                                                         *)
(* JavaScript values are encoded as records with the fields t, neg, m, s:   *)
(*   a number     t = "number", its sign neg and its magnitude m, the       *)
(*                decimal digits of an integer, most significant first      *)
(*                (12 is <<1, 2>>; negative zero is neg with m = <<0>>)     *)
(*   Infinity     t = "Infinity" and its sign neg                           *)
(*   NaN          t = "NaN"                                                 *)
(*   a string     t = "string" and its characters s                         *)
(*   undefined    t = "undefined"                                           *)
(* Strings are sequences of one-character strings ("12" is <<"1", "2">>); a *)
(* character outside ASCII, or a control character with no escape, is      *)
(* written as its code point ("U+00A0").                                   *)
(* An object that may be undefined carries a field def.                    *)
(***************************************************************************)
EXTENDS Integers, Sequences, FiniteSets, TLC

\* ------------------------------------------------------------------ bounds

\* Longest 'x-user-id' header value a request is built with.
MaxLen == 2
\* Most handler invocations and logger calls in one container lifetime.
MaxCalls == 2
\* Most module.get resolutions in one container lifetime.
MaxGets == 2

\* ------------------------------------------------------------ JS values

\* The decimal digits of a natural number.
RECURSIVE IntDigits(_)
IntDigits(k) ==
    IF k < 10 THEN <<k>> ELSE Append(IntDigits(k \div 10), k % 10)

Number(neg, m) == [t |-> "number", neg |-> neg, m |-> m, s |-> <<>>]
Num(k) == IF k < 0 THEN Number(TRUE, IntDigits(0 - k)) ELSE Number(FALSE, IntDigits(k))
\* -0: equal to 0 under ===, told apart by Object.is (and so by toEqual).
NegZero == Number(TRUE, <<0>>)
Infinity(neg) == [t |-> "Infinity", neg |-> neg, m |-> <<0>>, s |-> <<>>]
NaN == [t |-> "NaN", neg |-> FALSE, m |-> <<0>>, s |-> <<>>]
Str(x) == [t |-> "string", neg |-> FALSE, m |-> <<0>>, s |-> x]
Undefined == [t |-> "undefined", neg |-> FALSE, m |-> <<0>>, s |-> <<>>]

\* The string literals of the sources.
sTest == <<"T", "e", "s", "t">>
sTestUser == <<"T", "e", "s", "t", " ", "U", "s", "e", "r">>
sAnonymous == <<"A", "n", "o", "n", "y", "m", "o", "u", "s">>
sStub == <<"S", "t", "u", "b">>
sData == <<"d", "a", "t", "a">>

\* The characters header values are built from: digits, a letter, a blank
\* and a sign, which are the classes parseInt tells apart.
Chars == {"0", "1", "a", " ", "-"}

RECURSIVE StringsUpTo(_)
StringsUpTo(k) ==
    IF k = 0 THEN {<<>>}
    ELSE LET shorter == StringsUpTo(k - 1)
         IN shorter \cup {Append(x, c) : x \in shorter, c \in Chars}

\* Header values beyond 2^53, where a double no longer holds every integer:
\* 2^53 + 1 and 12345678901234567890.
LongHeaderValues ==
    {<<"9", "0", "0", "7", "1", "9", "9", "2", "5", "4", "7", "4", "0", "9",
       "9", "3">>,
     <<"1", "2", "3", "4", "5", "6", "7", "8", "9", "0", "1", "2", "3", "4",
       "5", "6", "7", "8", "9", "0">>}

HeaderValues == StringsUpTo(MaxLen) \cup LongHeaderValues

\* ------------------------------------- naturals as sequences of digits

MaxOf(a, b) == IF a > b THEN a ELSE b
MinOf(a, b) == IF a < b THEN a ELSE b
Min(S) == CHOOSE x \in S : \A y \in S : x <= y

\* d without its leading zeros.
Canon(d) ==
    IF Len(d) <= 1 THEN d
    ELSE IF \A i \in 1..Len(d) : d[i] = 0 THEN <<0>>
    ELSE SubSeq(d, CHOOSE i \in 1..Len(d) :
                       d[i] # 0 /\ \A j \in 1..(i - 1) : d[j] = 0,
                Len(d))

Zeros(k) == IF k <= 0 THEN <<>> ELSE [i \in 1..k |-> 0]

\* The i-th least significant digit of d.
DigitAt(d, i) == IF i <= Len(d) THEN d[Len(d) - i + 1] ELSE 0

\* a + b. A column takes a carry when the nearest column below it that does
\* not sum to 9 sums to 10 or more.
ColumnSum(a, b, i) == DigitAt(a, i) + DigitAt(b, i)
CarryInto(a, b, i) ==
    \E j \in 1..(i - 1) :
        /\ ColumnSum(a, b, j) >= 10
        /\ \A k \in (j + 1)..(i - 1) : ColumnSum(a, b, k) = 9
AddColumns(a, b, n) ==
    (IF CarryInto(a, b, n + 1) THEN <<1>> ELSE <<>>)
        \o [p \in 1..n |->
               (ColumnSum(a, b, n - p + 1)
                    + (IF CarryInto(a, b, n - p + 1) THEN 1 ELSE 0)) % 10]
Add(a, b) == AddColumns(a, b, MaxOf(Len(a), Len(b)))

\* a - b for a >= b. A column lends when the nearest column below it where
\* the digits differ has the smaller digit in a.
BorrowFrom(a, b, i) ==
    \E j \in 1..(i - 1) :
        /\ DigitAt(a, j) < DigitAt(b, j)
        /\ \A k \in (j + 1)..(i - 1) : DigitAt(a, k) = DigitAt(b, k)
Sub(a, b) ==
    Canon([p \in 1..Len(a) |->
              (10 + DigitAt(a, Len(a) - p + 1) - DigitAt(b, Len(a) - p + 1)
                  - (IF BorrowFrom(a, b, Len(a) - p + 1) THEN 1 ELSE 0)) % 10])

\* a < b, for digit sequences without leading zeros.
Less(a, b) ==
    \/ Len(a) < Len(b)
    \/ /\ Len(a) = Len(b)
       /\ \E i \in 1..Len(a) :
              a[i] < b[i] /\ \A j \in 1..(i - 1) : a[j] = b[j]

\* d \div 2: each digit is halved, with ten more when the digit before it
\* is odd.
HalfDigits(d) ==
    [i \in 1..Len(d) |->
        ((IF i > 1 THEN 10 * (d[i - 1] % 2) ELSE 0) + d[i]) \div 2]
Half(d) == IF Len(d) > 1 /\ d[1] < 2 THEN Tail(HalfDigits(d)) ELSE HalfDigits(d)
IsOdd(d) == d[Len(d)] % 2 = 1

\* d * 2: each digit is doubled, with one more when the digit after it is 5
\* or more.
DoubleDigits(d) ==
    [i \in 1..Len(d) |->
        (2 * d[i] + (IF i < Len(d) /\ d[i + 1] >= 5 THEN 1 ELSE 0)) % 10]
Double(d) == IF d[1] >= 5 THEN <<1>> \o DoubleDigits(d) ELSE DoubleDigits(d)

\* d * 2^e.
RECURSIVE TimesPow2(_, _)
TimesPow2(d, e) ==
    IF e = 0 \/ d = <<0>> THEN d
    ELSE IF e = 1 THEN Double(d)
    ELSE TimesPow2(TimesPow2(d, e \div 2), e - e \div 2)

\* --------------------------------------------------------------- doubles

\* 2^53: a double holds 53 bits of an integer.
Two53 == <<9, 0, 0, 7, 1, 9, 9, 2, 5, 4, 7, 4, 0, 9, 9, 2>>
\* The largest double, 2^1024 - 2^971, has 309 digits.
MaxDigits == 309
\* The largest double is (2^53 - 1) * 2^MaxExponent.
MaxExponent == 971
\* The largest power of two a number of MaxDigits digits is shifted by at once.
MaxShift == 512

\* A natural being shifted right: what is left of it (q), how far it was
\* shifted (e), the last bit shifted out (guard) and whether any bit before
\* it was set (sticky).
Unshifted(d) == [q |-> d, e |-> 0, guard |-> FALSE, sticky |-> FALSE]
Halve(st) ==
    [q |-> Half(st.q), e |-> st.e + 1, guard |-> IsOdd(st.q),
     sticky |-> st.sticky \/ st.guard]
RECURSIVE HalveTimes(_, _)
HalveTimes(st, n) ==
    IF n = 0 \/ st.q = <<>> THEN st
    ELSE IF n = 1 THEN Halve(st)
    ELSE HalveTimes(HalveTimes(st, n \div 2), n - n \div 2)

\* st shifted right by n, n \div 2, ... 1 bits, each time what is left would
\* still be 2^53 or more; q has 10 * Len(q) \div 3 bits at most.
RECURSIVE ShiftFrom(_, _)
ShiftIf(st, shifted, n) ==
    ShiftFrom(IF Less(shifted.q, Two53) THEN st ELSE shifted, n \div 2)
ShiftFrom(st, n) ==
    IF n = 0 THEN st
    ELSE IF 10 * Len(st.q) <= 3 * (53 + n) THEN ShiftFrom(st, n \div 2)
    ELSE ShiftIf(st, HalveTimes(st, n), n)
BelowTwo53(st) == IF Less(st.q, Two53) THEN st ELSE Halve(st)

\* d shifted right until it is below 2^53.
ShiftRight(d) == BelowTwo53(ShiftFrom(Unshifted(d), MaxShift))

\* The double q * 2^e, or inf when it is beyond the largest double.
Scale(q, e) ==
    IF e > MaxExponent \/ (e = MaxExponent /\ q = Two53)
    THEN [inf |-> TRUE, m |-> <<0>>]
    ELSE [inf |-> FALSE, m |-> TimesPow2(q, e)]

\* Round to nearest, ties to even: up when the bits shifted out are more
\* than half, or are half and the last bit kept is set.
RoundNearest(r) ==
    Scale(IF r.guard /\ (r.sticky \/ IsOdd(r.q)) THEN Add(r.q, <<1>>) ELSE r.q,
          r.e)

\* The double nearest to the natural d, ties to the even one: its digits, or
\* inf when it is beyond the largest double.
ToDouble(d) ==
    IF Len(d) > MaxDigits THEN [inf |-> TRUE, m |-> <<0>>]
    ELSE RoundNearest(ShiftRight(d))

\* ------------------------------------------------- parseInt and template strings

\* StrWhiteSpaceChar: the white space and line terminators parseInt skips.
WhiteSpace ==
    {" ", "\t", "\n", "\f", "\r", "U+000B", "U+00A0", "U+FEFF", "U+1680",
     "U+2000", "U+2001", "U+2002", "U+2003", "U+2004", "U+2005", "U+2006",
     "U+2007", "U+2008", "U+2009", "U+200A", "U+2028", "U+2029", "U+202F",
     "U+205F", "U+3000"}
IsWhiteSpace(c) == c \in WhiteSpace
IsDigit(c) == c \in {"0", "1", "2", "3", "4", "5", "6", "7", "8", "9"}
DigitValue(c) ==
    CASE c = "0" -> 0 [] c = "1" -> 1 [] c = "2" -> 2 [] c = "3" -> 3
      [] c = "4" -> 4 [] c = "5" -> 5 [] c = "6" -> 6 [] c = "7" -> 7
      [] c = "8" -> 8 [] c = "9" -> 9

\* x from its first character that is not white space.
TrimStart(x) ==
    IF \A i \in 1..Len(x) : IsWhiteSpace(x[i]) THEN <<>>
    ELSE SubSeq(x, CHOOSE i \in 1..Len(x) :
                       /\ ~IsWhiteSpace(x[i])
                       /\ \A j \in 1..(i - 1) : IsWhiteSpace(x[j]),
                Len(x))

\* The longest prefix of x made of digits.
DigitPrefix(x) ==
    IF \A i \in 1..Len(x) : IsDigit(x[i]) THEN x
    ELSE SubSeq(x, 1, (CHOOSE i \in 1..Len(x) :
                          /\ ~IsDigit(x[i])
                          /\ \A j \in 1..(i - 1) : IsDigit(x[j])) - 1)

\* The natural number a run of digit characters denotes.
DigitsToInt(x) == Canon([i \in 1..Len(x) |-> DigitValue(x[i])])

\* parseInt(string, 10): leading white space is skipped, one sign is read,
\* then the longest run of decimal digits; no digit gives NaN. The integer
\* read is rounded to a double, and a minus sign before zero gives -0.
WithSign(negative, magnitude) ==
    IF magnitude.inf THEN Infinity(negative)
    ELSE Number(negative, magnitude.m)
ParseDigits(negative, digits) ==
    IF digits = <<>> THEN NaN
    ELSE WithSign(negative, ToDouble(DigitsToInt(digits)))
ParseSigned(trimmed) ==
    IF trimmed # <<>> /\ Head(trimmed) \in {"-", "+"}
    THEN ParseDigits(Head(trimmed) = "-", DigitPrefix(Tail(trimmed)))
    ELSE ParseDigits(FALSE, DigitPrefix(trimmed))
parseInt(x) == ParseSigned(TrimStart(x))

DigitChar(d) ==
    CASE d = 0 -> "0" [] d = 1 -> "1" [] d = 2 -> "2" [] d = 3 -> "3"
      [] d = 4 -> "4" [] d = 5 -> "5" [] d = 6 -> "6" [] d = 7 -> "7"
      [] d = 8 -> "8" [] d = 9 -> "9"
DigitChars(d) == [i \in 1..Len(d) |-> DigitChar(d[i])]

DropTrailingZeros(d) ==
    IF Len(d) <= 1 THEN d
    ELSE IF \A i \in 1..Len(d) : d[i] = 0 THEN <<0>>
    ELSE SubSeq(d, 1, CHOOSE i \in 1..Len(d) :
                          d[i] # 0 /\ \A j \in (i + 1)..Len(d) : d[j] = 0)

\* A double is told from its neighbours by 17 significant digits.
MaxSignificant == 17

\* The decimals with k significant digits next to the double m: its first k
\* digits, and those plus one, followed by zeros.
Lower(m, k) == SubSeq(m, 1, k) \o Zeros(Len(m) - k)
Upper(m, k) == Add(SubSeq(m, 1, k), <<1>>) \o Zeros(Len(m) - k)
\* The decimal cand denotes the double m.
Denotes(cand, m) == ToDouble(cand) = [inf |-> FALSE, m |-> m]
\* The numbers of significant digits that are enough to denote m.
SignificantDigits(m) ==
    {k \in 1..MinOf(Len(m), MaxSignificant) :
        Denotes(Lower(m, k), m) \/ Denotes(Upper(m, k), m)}
Nearer(m, lo, hi) == IF Less(Sub(hi, m), Sub(m, lo)) THEN hi ELSE lo
ShortestOf(m, lo, hi, okLo, okHi) ==
    IF okLo /\ okHi THEN Nearer(m, lo, hi) ELSE IF okLo THEN lo ELSE hi
ShortestWith(m, k) ==
    ShortestOf(m, Lower(m, k), Upper(m, k), Denotes(Lower(m, k), m),
               Denotes(Upper(m, k), m))
ShortestAmong(m, ks) == IF ks = {} THEN m ELSE ShortestWith(m, Min(ks))

\* The decimal with the fewest significant digits that still denotes the
\* double m; of two that do, the one nearer to m.
Shortest(m) == ShortestAmong(m, SignificantDigits(m))

\* The digits full written out, up to 21 of them, and as d.ddde+NN beyond;
\* sig is full without its trailing zeros.
Decimal(full, sig) ==
    IF Len(full) <= 21 THEN DigitChars(full)
    ELSE <<DigitChar(sig[1])>>
             \o (IF Len(sig) > 1
                 THEN <<".">> \o DigitChars(SubSeq(sig, 2, Len(sig)))
                 ELSE <<>>)
             \o <<"e", "+">> \o DigitChars(IntDigits(Len(full) - 1))
Exponential(full) == Decimal(full, DropTrailingZeros(full))

\* Number::toString of a finite number's magnitude: the shortest decimal,
\* written out in full up to 21 digits and with an exponent beyond.
NumberToString(m) == Exponential(Shortest(m))

\* The string a template literal `${v}` puts in place of v.
TemplateString(v) ==
    CASE v.t = "number" ->
             (IF v.neg /\ v.m # <<0>> THEN <<"-">> ELSE <<>>) \o NumberToString(v.m)
      [] v.t = "Infinity" ->
             (IF v.neg THEN <<"-">> ELSE <<>>)
                 \o <<"I", "n", "f", "i", "n", "i", "t", "y">>
      [] v.t = "NaN" -> <<"N", "a", "N">>
      [] v.t = "string" -> v.s
      [] v.t = "undefined" -> <<"u", "n", "d", "e", "f", "i", "n", "e", "d">>

\* ------------------------------------------------------ requests and users

EmptyMap == [k \in {} |-> <<>>]
Put(m, key, v) == [k \in DOMAIN m \cup {key} |-> IF k = key THEN v ELSE m[k]]

\* Header maps: with or without an 'x-user-id' entry.
HeaderMaps ==
    {EmptyMap, Put(EmptyMap, "accept", <<"a">>)}
        \cup {Put(EmptyMap, "x-user-id", v) : v \in HeaderValues}

\* A request object; def = FALSE is the value undefined.
UndefinedRequest == [def |-> FALSE, hasHeaders |-> FALSE, headers |-> EmptyMap]
Request(h) == [def |-> TRUE, hasHeaders |-> TRUE, headers |-> h]
RequestWithoutHeaders == [def |-> TRUE, hasHeaders |-> FALSE, headers |-> EmptyMap]
Requests == {Request(h) : h \in HeaderMaps} \cup {RequestWithoutHeaders}

\* A user object; def = FALSE is the value undefined.
UndefinedUser == [def |-> FALSE, id |-> Num(0), name |-> Str(<<>>)]
UserDto(i, nm) == [def |-> TRUE, id |-> i, name |-> nm]

\* The users a test passes to the handler or lets a stub pipe return.
TestUsers ==
    {UserDto(Num(1), Str(sTest)), UserDto(Num(0 - 1), Str(sTestUser)),
     UserDto(NaN, Str(sTest)), UserDto(Str(<<"1", "2">>), Str(sTest))}
StubUsers == {UserDto(Num(1), Str(sTestUser)), UserDto(Num(10), Str(sStub))}

\* The raw values a parameter decorator hands to its pipe.
RawValues == {Undefined, Str(sData), Num(1)}

\* --------------------------------------------------------------- outcomes

NoError == [type |-> "", reading |-> "", token |-> "", requiredBy |-> ""]
TypeError(prop) ==
    [type |-> "TypeError", reading |-> prop, token |-> "", requiredBy |-> ""]

\* A call's result: a returned value (ok) or a thrown error.
Return(v) == [ok |-> TRUE, value |-> v, error |-> NoError]
Throw(e) == [ok |-> FALSE, value |-> UndefinedUser, error |-> e]

\* ------------------------------------------------------------ LoggerService

\* The keys and values test code passes to LoggerService.assign.
ContextValues == {Num(1), Str(sTest)}
AssignData ==
    UNION {[ks -> ContextValues] : ks \in SUBSET {"userId", "traceId"}}
LogMessages == {"start", "done"}

\* assign with the spread operands swapped: earlier values win.
assignKeepsOld(ctx, data) ==
    [k \in DOMAIN ctx \cup DOMAIN data |->
        IF k \in DOMAIN ctx THEN ctx[k] ELSE data[k]]

\* LoggerService.assign: this.context = { ...this.context, ...data }
assign(ctx, data) ==
    [k \in DOMAIN ctx \cup DOMAIN data |->
        IF k \in DOMAIN data THEN data[k] ELSE ctx[k]]

\* LoggerService.log: console.log(message, this.context). The line written
\* to the console, and the context the call leaves behind.
log(ctx, message) ==
    [line |-> [message |-> message, context |-> ctx], context |-> ctx]

\* -------------------------------------------------------------- GetUserPipe

Anonymous == UserDto(Num(0), Str(sAnonymous))

\* transform that checks its dependency and reports the missing provider.
transformChecked(req, value) ==
    IF ~req.def
    THEN Throw([type |-> "Error", reading |-> "", token |-> "REQUEST",
                requiredBy |-> "GetUserPipe"])
    ELSE IF ~req.hasHeaders THEN Throw(TypeError("x-user-id"))
    ELSE IF "x-user-id" \notin DOMAIN req.headers THEN Return(Anonymous)
    ELSE LET userId == req.headers["x-user-id"]
         IN IF userId = <<>> THEN Return(Anonymous)
            ELSE Return(UserDto(parseInt(userId), Str(sTestUser)))

\* transform that tests the parsed number, so that id 0 counts as absent.
transformZeroFalsy(req, value) ==
    IF ~req.def THEN Throw(TypeError("headers"))
    ELSE IF ~req.hasHeaders THEN Throw(TypeError("x-user-id"))
    ELSE IF "x-user-id" \notin DOMAIN req.headers THEN Return(Anonymous)
    ELSE LET userId == req.headers["x-user-id"]
         IN IF userId = <<>> \/ parseInt(userId) \in {Num(0), NegZero, NaN}
            THEN Return(Anonymous)
            ELSE Return(UserDto(parseInt(userId), Str(sTestUser)))

\* transform without the test for an absent header: parseInt(undefined).
transformNoDefault(req, value) ==
    IF ~req.def THEN Throw(TypeError("headers"))
    ELSE IF ~req.hasHeaders THEN Throw(TypeError("x-user-id"))
    ELSE IF "x-user-id" \notin DOMAIN req.headers
         THEN Return(UserDto(NaN, Str(sTestUser)))
    ELSE LET userId == req.headers["x-user-id"]
         IN IF userId = <<>> THEN Return(Anonymous)
            ELSE Return(UserDto(parseInt(userId), Str(sTestUser)))

\* GetUserPipe.transform, run on the pipe's injected req. Reading a property
\* of undefined throws a TypeError; an absent or empty header is falsy.
transform(req, value) ==
    IF ~req.def THEN Throw(TypeError("headers"))
    ELSE IF ~req.hasHeaders THEN Throw(TypeError("x-user-id"))
    ELSE IF "x-user-id" \notin DOMAIN req.headers THEN Return(Anonymous)
    ELSE LET userId == req.headers["x-user-id"]
         IN IF userId = <<>> THEN Return(Anonymous)
            ELSE Return(UserDto(parseInt(userId), Str(sTestUser)))

\* The factory of the _User parameter decorator: it returns its data.
UserFactory(data) == data

\* ------------------------------------------------------------- MyController

HelloUser == <<"H", "e", "l", "l", "o", " ", "u", "s", "e", "r", " ">>
NoAssign == <<>>

\* MyController.getData(user) on a controller whose logger field is set
\* (hasLogger) or undefined: the assign calls it makes, and what it returns
\* or throws. this.logger.assign is read before the argument is built.
getData(hasLogger, user) ==
    IF ~hasLogger THEN
        [ok |-> FALSE, message |-> <<>>, error |-> TypeError("assign"),
         assigns |-> NoAssign]
    ELSE IF ~user.def THEN
        [ok |-> FALSE, message |-> <<>>, error |-> TypeError("id"),
         assigns |-> NoAssign]
    ELSE
        [ok |-> TRUE, message |-> HelloUser \o TemplateString(user.id),
         error |-> NoError,
         assigns |-> <<[userId |-> user.id, userName |-> user.name]>>]

\* ------------------------------------------------------- the test module

\* The tokens a test resolves, and those every test module registers (its
\* controllers and providers); REQUEST is registered by a useValue provider
\* or not at all.
Tokens == {"MyController", "LoggerService", "GetUserPipe", "REQUEST"}
Provided == {"MyController", "LoggerService", "GetUserPipe"}

NoOverride == [def |-> FALSE, value |-> UndefinedUser]
NoPipe == [kind |-> "none", req |-> UndefinedRequest, value |-> UndefinedUser]
NoController == [def |-> FALSE, hasLogger |-> FALSE]
NoOutcome == [kind |-> "none", via |-> "", message |-> <<>>, error |-> NoError]

VARIABLES
    phase,            \* "setup", "compiled" (beforeEach after compile), "test"
    requestProvider,  \* the useValue registered for REQUEST, or undefined
    pipeOverride,     \* the overridePipe(GetUserPipe).useValue stub, if any
    pipe,             \* the pipe instance bound to the user parameter
    controller,       \* the MyController instance of the module
    instanceOf,       \* the container's instance of each token (0: none)
    constructed,      \* how many instances the container has constructed
    resolved,         \* per token, the instances resolutions have returned
    gets,             \* per token, the module.get calls of this beforeEach
    resolveError,     \* the error of the last module.get
    context,          \* LoggerService.context
    assignLog,        \* the arguments of the assign calls, in order
    logLines,         \* the lines log has written, in order
    pc,               \* the dispatch of a routed request: "idle",
                      \* "transform", "bound", "failed"
    raw,              \* the value the decorator factory hands to the pipe
    bound,            \* the value the pipe produced for the user parameter
    fault,            \* the error the pipe threw
    received,         \* the user argument of the last run of getData
    outcome,          \* how the last invocation ended
    calls,            \* invocations finished in this container lifetime
    transformRuns,    \* runs of the pipe's transform that have started
    handlerRuns       \* runs of getData that have started

vars ==
    <<phase, requestProvider, pipeOverride, pipe, controller, instanceOf,
      constructed, resolved, gets, resolveError, context, assignLog,
      logLines, pc, raw,
      bound, fault, received, outcome, calls, transformRuns, handlerRuns>>

moduleVars ==
    <<requestProvider, pipeOverride, pipe, controller, instanceOf,
      constructed, resolved, gets, resolveError>>
loggerVars == <<context, assignLog, logLines>>
dispatchVars == <<pc, raw, bound, fault>>
runVars == <<received, outcome, calls, transformRuns, handlerRuns>>

Init ==
    /\ phase = "setup"
    /\ requestProvider = UndefinedRequest
    /\ pipeOverride = NoOverride
    /\ pipe = NoPipe
    /\ controller = NoController
    /\ instanceOf = [t \in Tokens |-> 0]
    /\ constructed = 0
    /\ resolved = [t \in Tokens |-> {}]
    /\ gets = [t \in Tokens |-> 0]
    /\ resolveError = NoError
    /\ context = EmptyMap
    /\ assignLog = <<>>
    /\ logLines = <<>>
    /\ pc = "idle"
    /\ raw = Undefined
    /\ bound = UndefinedUser
    /\ fault = NoError
    /\ received = UndefinedUser
    /\ outcome = NoOutcome
    /\ calls = 0
    /\ transformRuns = 0
    /\ handlerRuns = 0

\* providers: [{ provide: REQUEST, useValue: r }]
ProvideRequest(r) ==
    /\ phase = "setup"
    /\ requestProvider' = r
    /\ UNCHANGED <<phase, pipeOverride, pipe, controller, instanceOf,
                   constructed, resolved, gets, resolveError>>
    /\ UNCHANGED <<loggerVars, dispatchVars, runVars>>

\* .overridePipe(GetUserPipe).useValue({ transform: mockResolvedValue(u) })
OverridePipe(u) ==
    /\ phase = "setup"
    /\ pipeOverride' = [def |-> TRUE, value |-> u]
    /\ UNCHANGED <<phase, requestProvider, pipe, controller, instanceOf,
                   constructed, resolved, gets, resolveError>>
    /\ UNCHANGED <<loggerVars, dispatchVars, runVars>>

\* A module that ignores the override and constructs the original pipe.
ConstructPipeIgnoringOverride(override, provider) ==
    [kind |-> "GetUserPipe", req |-> provider, value |-> UndefinedUser]

\* The pipe the module binds to the user parameter: the override if there is
\* one, else a GetUserPipe constructed with the REQUEST provider's value,
\* which is undefined when no provider is registered.
ConstructPipe(override, provider) ==
    IF override.def
    THEN [kind |-> "stub", req |-> UndefinedRequest, value |-> override.value]
    ELSE [kind |-> "GetUserPipe", req |-> provider, value |-> UndefinedUser]

\* The pipe has a dependency the module could not resolve.
Unresolved(p) == p.kind = "GetUserPipe" /\ ~p.req.def

\* The controller of the module. With an unresolved pipe dependency the
\* instance module.get returns has no logger field (its use throws
\* "Cannot read properties of undefined (reading 'assign')").
ConstructController(p) == [def |-> TRUE, hasLogger |-> ~Unresolved(p)]

\* .compile(): never an error, whatever is registered. The module's
\* bindings are fixed; no instance is in the container's cache yet.
Compile ==
    /\ phase = "setup"
    /\ phase' = "compiled"
    /\ pipe' = ConstructPipe(pipeOverride, requestProvider)
    /\ controller' = ConstructController(pipe')
    /\ UNCHANGED <<requestProvider, pipeOverride, instanceOf, constructed,
                   resolved, gets, resolveError>>
    /\ UNCHANGED <<loggerVars, dispatchVars, runVars>>

\* ---------------------------------------------------------- the container

MissingProviderError(token, requester) ==
    [type |-> "MissingProviderError", reading |-> "", token |-> token,
     requiredBy |-> requester]

\* The tokens with a provider in a module whose REQUEST provider is provider.
Registered(provider) ==
    Provided \cup (IF provider.def THEN {"REQUEST"} ELSE {})

\* The constructor dependencies of a token's class: MyController takes the
\* LoggerService, GetUserPipe takes REQUEST; a stub or a value takes none.
Dependencies(token, overridden) ==
    CASE token = "MyController" -> <<"LoggerService">>
      [] token = "GetUserPipe" /\ ~overridden -> <<"REQUEST">>
      [] OTHER -> <<>>

\* The container as resolve sees it: the registered tokens, whether the pipe
\* is overridden, the cache (0: not constructed) and the construction count.
Container ==
    [registered |-> Registered(requestProvider),
     overridden |-> pipeOverride.def,
     instances |-> instanceOf,
     constructed |-> constructed]

\* The instances a resolution of token constructs, in order: those of its
\* dependencies that are registered and not yet cached, then its own. A
\* dependency with no provider is not constructed and raises no error: as
\* the broken test module and the README's root cause analysis record, the
\* dependent is built with undefined in its place (ConstructPipe,
\* ConstructController).
ToConstruct(token, c) ==
    LET Uncached(d) == d \in c.registered /\ c.instances[d] = 0
    IN SelectSeq(Dependencies(token, c.overridden), Uncached) \o <<token>>

\* Each token of order constructed and cached, numbered as constructed.
RECURSIVE construct(_, _, _)
construct(order, instances, count) ==
    IF order = <<>> THEN [instances |-> instances, constructed |-> count]
    ELSE construct(Tail(order),
                   [instances EXCEPT ![Head(order)] = count + 1], count + 1)

Resolution(ok, id, error, instances, count) ==
    [ok |-> ok, id |-> id, error |-> error, instances |-> instances,
     constructed |-> count]
Constructed(token, built) ==
    Resolution(TRUE, built.instances[token], NoError, built.instances,
               built.constructed)

\* A resolve that constructs a new instance on every call.
getFresh(token, requester, c) ==
    IF token \notin c.registered
    THEN Resolution(FALSE, 0, MissingProviderError(token, requester),
                    c.instances, c.constructed)
    ELSE Constructed(token, construct(<<token>>, c.instances, c.constructed))

\* module.get(token), the container's resolve: a token with no provider
\* fails with an error naming it and the requester; a cached instance is
\* returned as it is; else the instance is constructed, its dependencies
\* first, and cached.
get(token, requester, c) ==
    IF token \notin c.registered
    THEN Resolution(FALSE, 0, MissingProviderError(token, requester),
                    c.instances, c.constructed)
    ELSE IF c.instances[token] # 0
    THEN Resolution(TRUE, c.instances[token], NoError, c.instances,
                    c.constructed)
    ELSE Constructed(token,
                     construct(ToConstruct(token, c), c.instances,
                               c.constructed))

\* The cache, the count and the record of returned instances after the
\* resolution r of token.
Cache(token, r) ==
    /\ instanceOf' = r.instances
    /\ constructed' = r.constructed
    /\ resolved' = IF r.ok THEN [resolved EXCEPT ![token] = @ \cup {r.id}]
                   ELSE resolved

\* module.get(token) in beforeEach; after one that threw, none follows.
Resolve(token) ==
    /\ phase = "compiled"
    /\ gets[token] < MaxGets
    /\ resolveError = NoError
    /\ Cache(token, get(token, "", Container))
    /\ resolveError' = get(token, "", Container).error
    /\ gets' = [gets EXCEPT ![token] = @ + 1]
    /\ UNCHANGED <<phase, requestProvider, pipeOverride, pipe, controller>>
    /\ UNCHANGED <<loggerVars, dispatchVars, runVars>>

\* The resolutions of the test files' beforeEach: MyController, then
\* LoggerService, and then any provided token, any number of times.
Get(token) ==
    /\ token # "MyController" => gets["MyController"] > 0
    /\ token \notin {"MyController", "LoggerService"} => gets["LoggerService"] > 0
    /\ Resolve(token)

\* beforeEach is over (controller and logger were fetched, and no
\* module.get threw): a test runs.
StartTest ==
    /\ phase = "compiled"
    /\ resolveError = NoError
    /\ gets["MyController"] > 0
    /\ gets["LoggerService"] > 0
    /\ phase' = "test"
    /\ gets' = [t \in Tokens |-> 0]
    /\ UNCHANGED <<requestProvider, pipeOverride, pipe, controller,
                   instanceOf, constructed, resolved, resolveError>>
    /\ UNCHANGED <<loggerVars, dispatchVars, runVars>>

\* --------------------------------------------------------- invocations

RECURSIVE assignAll(_, _)
assignAll(ctx, datas) ==
    IF datas = <<>> THEN ctx
    ELSE assignAll(assign(ctx, Head(datas)), Tail(datas))

\* How an invocation made directly or through the route ended.
Outcome(via, r) ==
    [kind |-> IF r.ok THEN "returned" ELSE "threw", via |-> via,
     message |-> r.message, error |-> r.error]

\* The run of the handler body on a user argument: its logger calls land in
\* the logger, and its result is the invocation's outcome.
RunHandler(via, user) ==
    LET r == getData(controller.hasLogger, user)
    IN /\ context' = assignAll(context, r.assigns)
       /\ assignLog' = assignLog \o r.assigns
       /\ outcome' = Outcome(via, r)
       /\ received' = user
       /\ handlerRuns' = handlerRuns + 1
       /\ calls' = calls + 1

\* await controller.getData(u), as the tests call it: no decorator runs.
DirectCall(u) ==
    /\ phase = "test"
    /\ pc = "idle"
    /\ calls < MaxCalls
    /\ RunHandler("direct", u)
    /\ UNCHANGED <<phase, moduleVars, logLines, dispatchVars, transformRuns>>

\* A request routed to GET api/data: the User decorator's factory yields the
\* raw value for the pipe bound to the user parameter.
RouteRequest(data) ==
    /\ phase = "test"
    /\ pc = "idle"
    /\ calls < MaxCalls
    /\ raw' = UserFactory(data)
    /\ pc' = "transform"
    /\ UNCHANGED <<phase, moduleVars, loggerVars, bound, fault, runVars>>

\* transform of the pipe instance p: the stub's fixed value, or GetUserPipe's.
pipeTransform(p, value) ==
    IF p.kind = "stub" THEN Return(p.value) ELSE transform(p.req, value)

\* What the binder makes of the resolution p of the pipe and, when that
\* succeeded, of the result r of its transform.
Bind(p, r) ==
    IF ~p.ok
    THEN /\ fault' = p.error
         /\ pc' = "failed"
         /\ UNCHANGED <<bound, transformRuns>>
    ELSE /\ transformRuns' = transformRuns + 1
         /\ IF r.ok
            THEN /\ bound' = r.value
                 /\ pc' = "bound"
                 /\ UNCHANGED fault
            ELSE /\ fault' = r.error
                 /\ pc' = "failed"
                 /\ UNCHANGED bound

\* The binder resolves the pipe from the container, and the pipe's transform
\* runs on the raw value.
Transform ==
    /\ pc = "transform"
    /\ Cache("GetUserPipe", get("GetUserPipe", "User", Container))
    /\ Bind(get("GetUserPipe", "User", Container), pipeTransform(pipe, raw))
    /\ UNCHANGED <<phase, requestProvider, pipeOverride, pipe, controller,
                   gets, resolveError>>
    /\ UNCHANGED <<loggerVars, raw, received, outcome, calls, handlerRuns>>

\* The handler is invoked with the bound value, which is then dropped.
InvokeHandler ==
    /\ pc = "bound"
    /\ RunHandler("route", bound)
    /\ pc' = "idle"
    /\ bound' = UndefinedUser
    /\ UNCHANGED <<phase, moduleVars, logLines, raw, fault, transformRuns>>

\* A binder that catches the pipe's error and binds undefined instead.
SwallowFault ==
    /\ pc = "failed"
    /\ bound' = UndefinedUser
    /\ pc' = "bound"
    /\ fault' = NoError
    /\ UNCHANGED <<phase, moduleVars, loggerVars, raw, runVars>>

\* The pipe's error reaches the caller; the handler is not invoked.
PropagateFault ==
    /\ pc = "failed"
    /\ outcome' = [kind |-> "threw", via |-> "route", message |-> <<>>,
                   error |-> fault]
    /\ pc' = "idle"
    /\ fault' = NoError
    /\ calls' = calls + 1
    /\ UNCHANGED <<phase, moduleVars, loggerVars, raw, bound, received,
                   transformRuns, handlerRuns>>

\* The module and all its instances are dropped.
Discard ==
    /\ phase' = "setup"
    /\ requestProvider' = UndefinedRequest
    /\ pipeOverride' = NoOverride
    /\ pipe' = NoPipe
    /\ controller' = NoController
    /\ instanceOf' = [t \in Tokens |-> 0]
    /\ constructed' = 0
    /\ resolved' = [t \in Tokens |-> {}]
    /\ gets' = [t \in Tokens |-> 0]
    /\ resolveError' = NoError
    /\ context' = EmptyMap
    /\ assignLog' = <<>>
    /\ logLines' = <<>>
    /\ received' = UndefinedUser
    /\ outcome' = NoOutcome
    /\ calls' = 0
    /\ transformRuns' = 0
    /\ handlerRuns' = 0
    /\ UNCHANGED dispatchVars

\* The test case ends; the next one builds a new module.
Teardown ==
    /\ phase = "test"
    /\ pc = "idle"
    /\ Discard

\* A module.get of beforeEach threw: the test case ends without running.
Abort ==
    /\ phase = "compiled"
    /\ resolveError # NoError
    /\ Discard

Next ==
    \/ \E r \in Requests : ProvideRequest(r)
    \/ \E u \in StubUsers : OverridePipe(u)
    \/ Compile
    \/ \E t \in Provided : Get(t)
    \/ StartTest
    \/ \E u \in TestUsers \cup {UndefinedUser} : DirectCall(u)
    \/ \E d \in RawValues : RouteRequest(d)
    \/ Transform
    \/ InvokeHandler
    \/ PropagateFault
    \/ Teardown

Spec == Init /\ [][Next]_vars

\* ------------------------------------------- LoggerService on its own

\* logger.assign(data) and logger.log(message) called on a LoggerService.
LoggerAssign(data) ==
    /\ Len(assignLog) + Len(logLines) < MaxCalls + 1
    /\ context' = assign(context, data)
    /\ assignLog' = Append(assignLog, data)
    /\ UNCHANGED <<phase, moduleVars, logLines, dispatchVars, runVars>>

LoggerLog(message) ==
    /\ Len(assignLog) + Len(logLines) < MaxCalls + 1
    /\ LET r == log(context, message)
       IN /\ logLines' = Append(logLines, r.line)
          /\ context' = r.context
    /\ UNCHANGED <<phase, moduleVars, assignLog, dispatchVars, runVars>>

LoggerNext ==
    \/ \E data \in AssignData : LoggerAssign(data)
    \/ \E m \in LogMessages : LoggerLog(m)

LoggerSpec == Init /\ [][LoggerNext]_vars

\* --------------------------------------------- the container on its own

\* The REQUEST value of the fixed test module.
ContainerRequests == {Request(Put(EmptyMap, "x-user-id", <<"1">>))}

\* The user the fixed test passes to getData.
ContainerUsers == {UserDto(Num(1), Str(sTest))}

\* Test modules with or without REQUEST and the override, whose tests
\* resolve any token, provided or not, in any order, and then call the
\* handler directly, as the fixed test does, or route requests.
ContainerNext ==
    \/ \E r \in ContainerRequests : ProvideRequest(r)
    \/ \E u \in StubUsers : OverridePipe(u)
    \/ Compile
    \/ \E t \in Tokens : Resolve(t)
    \/ Abort
    \/ StartTest
    \/ \E u \in ContainerUsers : DirectCall(u)
    \/ \E d \in {Undefined} : RouteRequest(d)
    \/ Transform
    \/ InvokeHandler
    \/ PropagateFault
    \/ Teardown

ContainerSpec == Init /\ [][ContainerNext]_vars

\* ------------------------------------------------------------------ claims

Compiled == phase \in {"compiled", "test"}
Last(q) == q[Len(q)]

\* The module of the first test file: GetUserPipe provided, REQUEST not,
\* the pipe not overridden.
RequestMissing == Compiled /\ ~requestProvider.def /\ ~pipeOverride.def

\* An error that names the missing token and the pipe that requires it.
NamesMissingProvider(e) ==
    e.type # "TypeError" /\ e.token = "REQUEST" /\ e.requiredBy = "GetUserPipe"

\* C1: with no provider for REQUEST, an invocation of the handler ends in an
\* error that names REQUEST and GetUserPipe, never in a TypeError about a
\* property of undefined.
C1_MissingProviderNamed ==
    (RequestMissing /\ outcome.kind # "none") =>
        (outcome.kind = "threw" /\ NamesMissingProvider(outcome.error))

\* C2: with no provider for REQUEST, the failure is raised before the pipe's
\* transform starts: transform never runs in such a module.
C2_FailsBeforeTransform == RequestMissing => transformRuns = 0

\* C3: with GetUserPipe provided and REQUEST not, compilation succeeds, the
\* pipe's req is undefined, nothing fails before an invocation, and every
\* invocation ends in a TypeError raised where undefined is first used (the
\* pipe's read of headers, or the controller's logger.assign line), which
\* does not name the missing provider.
C3_UndefinedSurfacesLate ==
    RequestMissing =>
        /\ pipe.kind = "GetUserPipe"
        /\ pipe.req = UndefinedRequest
        /\ calls = 0 => outcome.kind = "none"
        /\ pc # "failed" => fault = NoError
        /\ pc = "failed" => fault = TypeError("headers")
        /\ calls > 0 =>
              /\ outcome.kind = "threw"
              /\ outcome.error.type = "TypeError"
              /\ outcome.error.token = ""
              /\ outcome.via = "route" => outcome.error.reading = "headers"
              /\ outcome.via = "direct" => outcome.error.reading = "assign"

C3_Witness ==
    /\ RequestMissing
    /\ calls = 2
    /\ outcome = [kind |-> "threw", via |-> "route", message |-> <<>>,
                  error |-> TypeError("headers")]
    /\ transformRuns = 1
    /\ handlerRuns = 1

\* C4: a direct call getData(u) with a user object u calls logger.assign with
\* exactly { userId: u.id, userName: u.name } and returns
\* { message: 'Hello user ' + u.id }.
C4_DirectCallAssigns ==
    (outcome.via = "direct" /\ received.def) =>
        /\ outcome.kind = "returned"
        /\ outcome.message = HelloUser \o TemplateString(received.id)
        /\ assignLog # <<>>
        /\ Last(assignLog) = [userId |-> received.id, userName |-> received.name]

\* A header value made of decimal digits only, and the integer it denotes:
\* as a number, summed digit by digit from the powers of ten (short values),
\* and as its digits without leading zeros.
DecimalDigits == <<"0", "1", "2", "3", "4", "5", "6", "7", "8", "9">>
ValueOf(c) == (CHOOSE k \in 1..10 : DecimalDigits[k] = c) - 1
IsDecimal(x) ==
    x # <<>> /\ \A i \in 1..Len(x) : \E k \in 1..10 : DecimalDigits[k] = x[i]
RECURSIVE Pow10(_)
Pow10(k) == IF k = 0 THEN 1 ELSE 10 * Pow10(k - 1)
RECURSIVE DecimalSum(_, _)
DecimalSum(x, i) ==
    IF i > Len(x) THEN 0
    ELSE ValueOf(x[i]) * Pow10(Len(x) - i) + DecimalSum(x, i + 1)
IntegerValue(x) == Canon([i \in 1..Len(x) |-> ValueOf(x[i])])

\* The module provides REQUEST with a decimal 'x-user-id' header and the
\* original pipe is bound.
DecimalHeader ==
    /\ Compiled
    /\ pipe.kind = "GetUserPipe"
    /\ pipe.req.def
    /\ pipe.req.hasHeaders
    /\ "x-user-id" \in DOMAIN pipe.req.headers
    /\ IsDecimal(pipe.req.headers["x-user-id"])

\* The user whose id is the integer value of the header, whatever its size.
IntegerUser ==
    UserDto(Number(FALSE, IntegerValue(pipe.req.headers["x-user-id"])),
            Str(sTestUser))

\* C5 as stated: with REQUEST providing a decimal 'x-user-id' header s,
\* transform returns { id: the integer value of s, name: 'Test User' }, the
\* handler receives that object and the logger records
\* { userId: id, userName: 'Test User' }.
C5_IntegerValueOfHeader ==
    DecimalHeader =>
        /\ pc # "failed"
        /\ pc = "bound" => bound = IntegerUser
        /\ outcome.via = "route" =>
              /\ outcome.kind = "returned"
              /\ received = IntegerUser
              /\ Last(assignLog) =
                    [userId |-> IntegerUser.id, userName |-> Str(sTestUser)]

\* How many bits an integer from 2^53 on loses in a double, and the natural
\* numbers a double holds: those whose odd part is below 2^53.
RECURSIVE LostBits(_)
LostBits(d) == IF Less(d, Two53) THEN 0 ELSE 1 + LostBits(Half(d))
RECURSIVE OddPart(_)
OddPart(d) == IF d # <<0>> /\ ~IsOdd(d) THEN OddPart(Half(d)) ELSE d
IsDoubleNat(d) == Less(OddPart(d), Two53)
Distance(a, b) == IF Less(a, b) THEN Sub(b, a) ELSE Sub(a, b)

\* v is the number parseInt makes of the integer d: d itself up to 2^53, and
\* beyond it a double no further from d than half the spacing of the doubles
\* around d.
IsNumberOf(v, d) ==
    /\ v.t = "number"
    /\ ~v.neg
    /\ IF ~Less(Two53, d) THEN v.m = d
       ELSE /\ IsDoubleNat(v.m)
            /\ LET twice == Add(Distance(v.m, d), Distance(v.m, d))
               IN ~Less(TimesPow2(<<1>>, LostBits(d)), twice)

\* u is the user transform makes of the decimal header value x.
IsHeaderUser(u, x) ==
    /\ u.def
    /\ u.name = Str(sTestUser)
    /\ IsNumberOf(u.id, IntegerValue(x))
    /\ Len(x) <= 9 => u.id = Num(DecimalSum(x, 1))
    /\ x = <<"1">> => u = UserDto(Num(1), Str(sTestUser))

\* C5 (amended): with REQUEST providing a decimal 'x-user-id' header s,
\* transform returns { id, name: 'Test User' } where id is the integer value
\* of s when that is at most 2^53 ('1' gives id 1) and the double nearest to
\* it beyond; the handler receives that object and the logger records
\* { userId: id, userName: 'Test User' }.
C5_HeaderUserBound ==
    DecimalHeader =>
        /\ pc # "failed"
        /\ pc = "bound" => IsHeaderUser(bound, pipe.req.headers["x-user-id"])
        /\ outcome.via = "route" =>
              /\ outcome.kind = "returned"
              /\ IsHeaderUser(received, pipe.req.headers["x-user-id"])
              /\ Last(assignLog) =
                    [userId |-> received.id, userName |-> Str(sTestUser)]
              /\ context["userId"] = received.id
              /\ context["userName"] = Str(sTestUser)

\* A routed request whose header is 2^53 + 1 was handled with id 2^53.
C5_Witness ==
    /\ DecimalHeader
    /\ IntegerValue(pipe.req.headers["x-user-id"]) = Add(Two53, <<1>>)
    /\ outcome.via = "route"
    /\ received = UserDto(Number(FALSE, Two53), Str(sTestUser))
    /\ assignLog = <<[userId |-> Number(FALSE, Two53), userName |-> Str(sTestUser)]>>

\* A routed request whose header is '1' was handled with id 1.
C5_SmallWitness ==
    /\ DecimalHeader
    /\ pipe.req.headers["x-user-id"] = <<"1">>
    /\ outcome.via = "route"
    /\ received = UserDto(Num(1), Str(sTestUser))
    /\ assignLog = <<[userId |-> Num(1), userName |-> Str(sTestUser)]>>

\* The module provides REQUEST with a header map that has no 'x-user-id'
\* entry, and the original pipe is bound.
HeaderAbsent ==
    /\ Compiled
    /\ pipe.kind = "GetUserPipe"
    /\ pipe.req.def
    /\ pipe.req.hasHeaders
    /\ "x-user-id" \notin DOMAIN pipe.req.headers

\* C6: with a provided REQUEST whose header map has no 'x-user-id' entry,
\* transform returns { id: 0, name: 'Anonymous' } and does not fail, whatever
\* raw value it is given.
C6_AnonymousDefault ==
    HeaderAbsent =>
        /\ pc # "failed"
        /\ pc = "bound" => bound = UserDto(Num(0), Str(sAnonymous))
        /\ (outcome.via = "route" /\ pc = "idle") =>
              received = UserDto(Num(0), Str(sAnonymous))

C6_Witness ==
    /\ HeaderAbsent
    /\ pipe.req.headers = Put(EmptyMap, "accept", <<"a">>)
    /\ raw = Str(sData)
    /\ pc = "bound"
    /\ bound = UserDto(Num(0), Str(sAnonymous))

\* C7: with the GetUserPipe binding overridden by a stub, the bound pipe is
\* the stub and never the original pipe, its value is what the handler gets,
\* and with or without a REQUEST provider no invocation of the handler with a
\* user object fails.
C7_OverrideReplacesPipe ==
    (Compiled /\ pipeOverride.def) =>
        /\ pipe.kind = "stub"
        /\ pipe.value = pipeOverride.value
        /\ pc # "failed"
        /\ pc = "bound" => bound = pipeOverride.value
        /\ outcome.via = "route" =>
              (outcome.kind = "returned" /\ received = pipeOverride.value)
        /\ (outcome.via = "direct" /\ received.def) => outcome.kind = "returned"

C7_Witness ==
    /\ Compiled
    /\ pipeOverride.def
    /\ ~requestProvider.def
    /\ outcome.via = "route"
    /\ outcome.kind = "returned"
    /\ received = UserDto(Num(10), Str(sStub))

\* C8: the handler body runs in a routed request only once the binder has
\* produced the bound value, and on that value; when the binder fails, the
\* next step hands the failure to the caller, and the handler is not run and
\* the logger is not called.
C8_HandlerAfterBinding ==
    [][/\ (pc # "idle" /\ handlerRuns' # handlerRuns) =>
              (pc = "bound" /\ received' = bound)
       /\ pc = "failed" =>
              /\ pc' = "idle"
              /\ outcome'.kind = "threw"
              /\ outcome'.via = "route"
              /\ outcome'.error = fault
              /\ handlerRuns' = handlerRuns
              /\ assignLog' = assignLog
              /\ context' = context]_vars

C8_Witness ==
    /\ outcome.via = "route"
    /\ outcome.kind = "threw"
    /\ pc = "idle"
    /\ calls = 1
    /\ handlerRuns = 0
    /\ assignLog = <<>>

\* The tokens whose instance is in the container's cache.
Cached == {t \in Tokens : instanceOf[t] # 0}

\* Every instance a resolution returned is the cached one, and the container
\* has constructed one instance for each cached token and no other.
OneInstancePerToken ==
    /\ \A t \in Tokens : resolved[t] \subseteq {instanceOf[t]} \ {0}
    /\ constructed = Cardinality(Cached)
    /\ \A t, u \in Cached : instanceOf[t] = instanceOf[u] => t = u

\* A step of the container's lifetime: any step but the teardown.
SameLifetime == phase' # "setup" \/ phase = "setup"

\* C9: within one container lifetime every resolution of a token returns the
\* same cached instance (a cached instance is never replaced), and a
\* resolution of a token that is cached, by module.get or by the binder,
\* constructs no instance; a resolution of a token with no provider fails
\* with an error naming the token and caches nothing.
C9_GetIsStable ==
    /\ []OneInstancePerToken
    /\ [][/\ SameLifetime =>
               \A t \in Cached : instanceOf'[t] = instanceOf[t]
          /\ \A t \in Cached :
               (gets'[t] = gets[t] + 1 \/ (t = "GetUserPipe" /\ pc = "transform"))
                   => /\ constructed' = constructed
                      /\ instanceOf' = instanceOf
                      /\ resolved'[t] = {instanceOf[t]}
          /\ \A t \in Tokens \ Registered(requestProvider) :
               gets'[t] = gets[t] + 1
                   => /\ resolveError' = MissingProviderError(t, "")
                      /\ constructed' = constructed
                      /\ instanceOf' = instanceOf
                      /\ resolved' = resolved]_vars

\* MyController and GetUserPipe were each resolved twice by module.get in a
\* module with REQUEST provided, and LoggerService once after MyController:
\* four instances exist, the logger and the request constructed as
\* dependencies, and every later resolution returned the cached instance.
C9_Witness ==
    /\ requestProvider.def
    /\ ~pipeOverride.def
    /\ gets = [MyController |-> 2, LoggerService |-> 1, GetUserPipe |-> 2,
               REQUEST |-> 0]
    /\ instanceOf = [LoggerService |-> 1, MyController |-> 2, REQUEST |-> 3,
                     GetUserPipe |-> 4]
    /\ resolved = [LoggerService |-> {1}, MyController |-> {2},
                   REQUEST |-> {}, GetUserPipe |-> {4}]
    /\ constructed = 4

\* The binder resolved the pipe that module.get had resolved before.
C9_BinderWitness ==
    /\ phase = "test"
    /\ transformRuns = 2
    /\ resolved["GetUserPipe"] = {3}
    /\ constructed = 3

\* module.get(REQUEST) failed in a module with no provider for it.
C9_MissingWitness ==
    /\ resolveError = MissingProviderError("REQUEST", "")
    /\ instanceOf["REQUEST"] = 0
    /\ resolved["MyController"] # {}

\* The calls of assignLog that mention key k.
Mentions(k) == {i \in 1..Len(assignLog) : k \in DOMAIN assignLog[i]}
LastMention(k) == CHOOSE i \in Mentions(k) : \A j \in Mentions(k) : j <= i

\* The context is the last-write-wins merge of the assign calls so far.
ContextIsLastWrite ==
    /\ DOMAIN context = UNION {DOMAIN assignLog[i] : i \in 1..Len(assignLog)}
    /\ \A k \in DOMAIN context : context[k] = assignLog[LastMention(k)][k]

\* C10: after any sequence of assign and log calls from the empty context,
\* the context has exactly the keys some assign call mentioned, each with the
\* value of the most recent call that mentioned it (so other keys keep their
\* values), and every log call writes the context as it is and leaves it so.
C10_ContextIsLastWrite ==
    /\ []ContextIsLastWrite
    /\ [][logLines' # logLines =>
             (context' = context /\ Last(logLines').context = context)]_vars

C10_Witness ==
    /\ Len(assignLog) = 2
    /\ Len(logLines) = 1
    /\ assignLog[1] = [userId |-> Num(1), traceId |-> Str(sTest)]
    /\ assignLog[2] = [userId |-> Str(sTest)]
    /\ context = [userId |-> Str(sTest), traceId |-> Str(sTest)]

====
